---------------------------- MODULE Spec2Model ----------------------------
(***************************************************************************)
(* A model of src/1-BasicReduxApplication.js: the store built by           *)
(* createStore (getState / subscribe / dispatch, lines 2-68) and the       *)
(* todo/goal reducers with their root reducer app (lines 71-101).          *)
(*                                                                         *)
(* JavaScript values are encoded as follows:                               *)
(*   undefined            Undef                                            *)
(*   an array             [items |-> <<...>>]                              *)
(*   an object            a record of its own properties                   *)
(*   a function value     a string naming it (reference identity)          *)
(* A call that may throw yields Ok(v) or Throw.                            *)
(***************************************************************************)
EXTENDS Integers, Sequences, FiniteSets, TLC

VARIABLES
    state,      \* line 48: `let state`
    listeners,  \* line 49: contents of the array `listeners` refers to now
    stack,      \* call stack: one frame per dispatch whose forEach is running
    handles,    \* the unsubscribe closures returned so far (lines 54-56)
    trace,      \* history: actions whose reducer call returned, in call order
    rcalls,     \* history: dispatch calls so far; each invokes the reducer once
    outcome,    \* history: how the dispatch call that ended last ended
    dead,       \* history: listeners unsubscribed and not subscribed since
    calls,      \* history: the latest dispatch call, its pre-state and the
                \* slice-reducer calls it made
    read,       \* history: what the latest getState() call returned
    invoked,    \* history: how often each listener has been invoked, and
                \* the number of accepted dispatches at its last subscribe
    other       \* a second store, built by another createStore(app) call

vars == <<state, listeners, stack, handles, trace, rcalls, outcome, dead, calls,
          read, invoked, other>>

\* what the operations of the first store leave alone
rest == <<read, invoked, other>>

----------------------------------------------------------------------------
(* Bounds of the exploration *)

MaxDispatch == 2    \* dispatch calls per run of Spec
MaxAppDispatch == 3 \* dispatch calls per run of SpecApp
MaxSubs     == 2    \* subscribe calls per run
MaxUnsubs   == 2    \* calls of unsubscribe handles per run
MaxDepth    == 2    \* nesting depth of dispatch
MaxOrder    == 3    \* subscribe calls per run of SpecSubs
MaxPass     == 1    \* dispatch calls per run of SpecSubs
MaxOther    == 1    \* calls of each operation of the second store
MaxItems    == 2    \* length of a slice's list

----------------------------------------------------------------------------
(* Values *)

Undef == [undef |-> TRUE]
EmptyObj == <<>>
Arr(s) == [items |-> s]
Ok(v) == [ok |-> TRUE, val |-> v]
Throw == [ok |-> FALSE]

\* property read `obj.key` on an object: a missing property reads undefined
Get(obj, key) == IF key \in DOMAIN obj THEN obj[key] ELSE Undef

Todo0 == [id |-> 0, name |-> "Walk the dog", complete |-> FALSE]
Todo1 == [id |-> 1, name |-> "Wash the car", complete |-> FALSE]
Goal0 == [id |-> 0, name |-> "Learn Redux"]
Goal1 == [id |-> 1, name |-> "Lose 20 pounds"]

----------------------------------------------------------------------------
(* App code: the reducers *)

\* `item.id !== action.id`; reading .id of undefined is a TypeError, which
\* the callers test for with HasUndef before they evaluate this.
IdDiffers(item, action) ==
    IF "id" \in DOMAIN action THEN item.id # action.id ELSE TRUE

\* `action.type` of an action object
ActionType(action) ==
    IF "type" \in DOMAIN action THEN action.type ELSE "undefined"

HasUndef(s) == \E k \in 1..Len(s) : s[k] = Undef

\* a todos reducer that starts over on an action it does not know
todosResetOnUnknown(st, action) ==
    LET s == IF st = Undef THEN Arr(<<>>) ELSE st
    IN  IF action = Undef THEN Throw
        ELSE CASE ActionType(action) = "ADD_TODO" ->
                    Ok(Arr(s.items \o <<Get(action, "todo")>>))
               [] ActionType(action) = "REMOVE_TODO" ->
                    IF HasUndef(s.items) THEN Throw
                    ELSE Ok(Arr(SelectSeq(s.items,
                                          LAMBDA t : IdDiffers(t, action))))
               [] ActionType(action) = "TOGGLE_TODO" ->
                    IF HasUndef(s.items) THEN Throw
                    ELSE Ok(Arr([k \in 1..Len(s.items) |->
                            IF IdDiffers(s.items[k], action) THEN s.items[k]
                            ELSE [s.items[k] EXCEPT !.complete = ~@]]))
               [] OTHER -> Ok(Arr(<<>>))

\* a todos reducer whose toggle marks the todo complete instead of
\* inverting its flag
todosToggleSets(st, action) ==
    LET s == IF st = Undef THEN Arr(<<>>) ELSE st
    IN  IF action = Undef THEN Throw
        ELSE CASE ActionType(action) = "ADD_TODO" ->
                    Ok(Arr(s.items \o <<Get(action, "todo")>>))
               [] ActionType(action) = "REMOVE_TODO" ->
                    IF HasUndef(s.items) THEN Throw
                    ELSE Ok(Arr(SelectSeq(s.items,
                                          LAMBDA t : IdDiffers(t, action))))
               [] ActionType(action) = "TOGGLE_TODO" ->
                    IF HasUndef(s.items) THEN Throw
                    ELSE Ok(Arr([k \in 1..Len(s.items) |->
                            IF IdDiffers(s.items[k], action) THEN s.items[k]
                            ELSE [s.items[k] EXCEPT !.complete = TRUE]]))
               [] OTHER -> Ok(s)

todos(st, action) ==
    LET s == IF st = Undef THEN Arr(<<>>) ELSE st
    IN  IF action = Undef THEN Throw
        ELSE CASE ActionType(action) = "ADD_TODO" ->
                    Ok(Arr(s.items \o <<Get(action, "todo")>>))
               [] ActionType(action) = "REMOVE_TODO" ->
                    IF HasUndef(s.items) THEN Throw
                    ELSE Ok(Arr(SelectSeq(s.items,
                                          LAMBDA t : IdDiffers(t, action))))
               [] ActionType(action) = "TOGGLE_TODO" ->
                    IF HasUndef(s.items) THEN Throw
                    ELSE Ok(Arr([k \in 1..Len(s.items) |->
                            IF IdDiffers(s.items[k], action) THEN s.items[k]
                            ELSE [s.items[k] EXCEPT !.complete = ~@]]))
               [] OTHER -> Ok(s)

\* a goals reducer that also answers REMOVE_TODO
goalsAnswersTodo(st, action) ==
    LET s == IF st = Undef THEN Arr(<<>>) ELSE st
    IN  IF action = Undef THEN Throw
        ELSE CASE ActionType(action) = "ADD_GOAL" ->
                    Ok(Arr(s.items \o <<Get(action, "goal")>>))
               [] ActionType(action) \in {"REMOVE_GOAL", "REMOVE_TODO"} ->
                    IF HasUndef(s.items) THEN Throw
                    ELSE Ok(Arr(SelectSeq(s.items,
                                          LAMBDA g : IdDiffers(g, action))))
               [] OTHER -> Ok(s)

goals(st, action) ==
    LET s == IF st = Undef THEN Arr(<<>>) ELSE st
    IN  IF action = Undef THEN Throw
        ELSE CASE ActionType(action) = "ADD_GOAL" ->
                    Ok(Arr(s.items \o <<Get(action, "goal")>>))
               [] ActionType(action) = "REMOVE_GOAL" ->
                    IF HasUndef(s.items) THEN Throw
                    ELSE Ok(Arr(SelectSeq(s.items,
                                          LAMBDA g : IdDiffers(g, action))))
               [] OTHER -> Ok(s)

\* The slice-reducer calls app makes, in evaluation order (lines 98-99); a
\* throwing todos call ends the evaluation before goals is called.
AppCalls(st, action) ==
    LET s == IF st = Undef THEN EmptyObj ELSE st
        t == [slice |-> "todos", state |-> Get(s, "todos"), action |-> action]
        g == [slice |-> "goals", state |-> Get(s, "goals"), action |-> action]
    IN  IF todos(t.state, action).ok THEN <<t, g>> ELSE <<t>>

\* a root reducer that hands the todos slice to both slice reducers
appCrossed(st, action) ==
    LET s == IF st = Undef THEN EmptyObj ELSE st
        t == todos(Get(s, "todos"), action)
        g == goals(Get(s, "todos"), action)
    IN  IF ~t.ok \/ ~g.ok THEN Throw
        ELSE Ok([todos |-> t.val, goals |-> g.val])

\* a root reducer that copies the fields of the action into the state
appMergesAction(st, action) ==
    LET s == IF st = Undef THEN EmptyObj ELSE st
        t == todos(Get(s, "todos"), action)
        g == goals(Get(s, "goals"), action)
    IN  IF ~t.ok \/ ~g.ok THEN Throw
        ELSE Ok([k \in {"todos", "goals"} \cup (DOMAIN action \ {"type"}) |->
                    IF k = "todos" THEN t.val
                    ELSE IF k = "goals" THEN g.val ELSE action[k]])

\* Root reducer
app(st, action) ==
    LET s == IF st = Undef THEN EmptyObj ELSE st
        t == todos(Get(s, "todos"), action)
        g == goals(Get(s, "goals"), action)
    IN  IF ~t.ok \/ ~g.ok THEN Throw
        ELSE Ok([todos |-> t.val, goals |-> g.val])

\* a reducer call that drops the previous state
reducerFresh(st, action) == app(Undef, action)

\* line 102: const store = createStore(app)
reducer(st, action) == app(st, action)

----------------------------------------------------------------------------
(* Inputs *)

\* Listener values handed to subscribe: two functions and one value that is
\* not a function.
Fns == {"f", "g"}
OtherFns == {"p"}
NotFn == "42"
ListenerValues == Fns \cup {NotFn}
Callable(l) == l \in Fns \cup OtherFns

\* Actions dispatched on the store with listeners: two well-formed ones and
\* no action at all, on which the reducer throws.
StoreActions ==
    { [type |-> "ADD_TODO", todo |-> Todo0],
      [type |-> "REMOVE_TODO", id |-> 0],
      Undef }

\* Actions dispatched when the listeners' invocations are counted: one that
\* changes the state and one of a type no reducer knows.
NotifyActions ==
    { [type |-> "ADD_TODO", todo |-> Todo0],
      [type |-> "NOOP"] }

\* Actions dispatched when the reducers are exercised on their own:
\* well-formed ones, ones without their payload, one of a type no reducer
\* knows and no action at all.
AppActions ==
    { [type |-> "ADD_TODO", todo |-> Todo0],
      [type |-> "ADD_TODO", todo |-> Todo1],
      [type |-> "ADD_TODO"],
      [type |-> "REMOVE_TODO", id |-> 0],
      [type |-> "REMOVE_TODO", id |-> 1],
      [type |-> "TOGGLE_TODO", id |-> 0],
      [type |-> "TOGGLE_TODO", id |-> 1],
      [type |-> "ADD_GOAL", goal |-> Goal0],
      [type |-> "ADD_GOAL", goal |-> Goal1],
      [type |-> "ADD_GOAL"],
      [type |-> "REMOVE_GOAL", id |-> 0],
      [type |-> "REMOVE_GOAL", id |-> 1],
      [type |-> "NOOP", id |-> 0, todo |-> Todo1],
      Undef }

----------------------------------------------------------------------------
(* Library code: createStore *)

\* a store that calls the reducer once while it is constructed
InitStateEager == app(Undef, [type |-> "@@INIT"]).val

\* line 48: `let state;`
InitState == Undef

\* line 50
getState == state

Top == stack[Len(stack)]
\* a dispatch whose end also ends the dispatches it is nested in
PopAll(stk) == <<>>

\* a dispatch that ends returns to its caller
Pop(stk) == SubSeq(stk, 1, Len(stk) - 1)

\* Code calling the store runs either at top level or inside a listener.
CanCall == IF stack = <<>> THEN TRUE ELSE Top.running

\* an insertion at the front
Unshift(ls, l) == <<l>> \o ls

\* a registration that is skipped when the listener is registered already
PushUnique(ls, l) ==
    IF \E i \in 1..Len(ls) : ls[i] = l THEN ls ELSE Append(ls, l)

\* line 52: push appends at the end
Push(ls, l) == Append(ls, l)

\* history: the registrations made by subscribe and not removed since, in
\* the order the subscribe calls were made
RECURSIVE Registered(_)
Registered(hs) ==
    IF hs = <<>> THEN <<>>
    ELSE (IF Head(hs).live THEN <<Head(hs).listener>> ELSE <<>>)
         \o Registered(Tail(hs))

\* history: the listeners whose unsubscribe handle has returned at least once
EverUnsubscribed ==
    {handles[h].listener : h \in {x \in 1..Len(handles) : handles[x].calls > 0}}

\* line 52: listeners.push(listener) mutates the array in place, so a
\* forEach that iterates the same array object sees the new element.
PushAliasedIn(stk, l, st) ==
    IF stk = <<>> THEN <<>>
    ELSE [k \in 1..Len(stk) |->
            IF stk[k].aliased /\ stk[k].store = st
            THEN [stk[k] EXCEPT !.arr = Push(@, l)]
            ELSE stk[k]]

PushAliased(stk, l) == PushAliasedIn(stk, l, 1)

\* a removal that empties the collection
FilterClear(ls, l) == <<>>

\* a removal that drops one registration only
RECURSIVE FilterFirst(_, _)
FilterFirst(ls, l) ==
    IF ls = <<>> THEN <<>>
    ELSE IF Head(ls) = l THEN Tail(ls)
    ELSE <<Head(ls)>> \o FilterFirst(Tail(ls), l)

\* line 55: filter builds a new array
Filter(ls, l) == SelectSeq(ls, LAMBDA x : x # l)

\* line 55: `listeners = ...` rebinds the variable; the arrays that running
\* forEach calls iterate stay as they are and are no longer `listeners`.
UnaliasIn(stk, l, st) ==
    IF stk = <<>> THEN <<>>
    ELSE [k \in 1..Len(stk) |->
            IF stk[k].store = st THEN [stk[k] EXCEPT !.aliased = FALSE]
            ELSE stk[k]]

Unalias(stk, l) == UnaliasIn(stk, l, 1)

\* an assignment that also happens when the reducer throws
DispatchStateClobber(s, r) == IF r.ok THEN r.val ELSE Undef

\* line 60: the assignment happens only when the reducer returns
DispatchState(s, r) == IF r.ok THEN r.val ELSE s

\* line 61: listeners.forEach(...) reads the length once and then visits
\* the indices below it that the array still has.
NewFrame(ls, pos) ==
    [arr |-> ls, aliased |-> TRUE, len |-> Len(ls), i |-> 1,
     running |-> FALSE, store |-> 1,
     \* history
     pos |-> pos, snap |-> Registered(handles), called |-> <<>>,
     startDead |-> dead, startEver |-> EverUnsubscribed]

\* a loop that reads the length of the array again at every step
PassOverLive(f) == f.i > Len(f.arr)

PassOver(f) == IF f.i > f.len THEN TRUE ELSE f.i > Len(f.arr)

Init ==
    /\ state = InitState
    /\ listeners = <<>>
    /\ stack = <<>>
    /\ handles = <<>>
    /\ trace = <<>>
    /\ rcalls = 0
    /\ outcome = "none"
    /\ dead = {}
    /\ calls = [ok |-> FALSE]
    /\ read = [none |-> TRUE]
    /\ invoked = [n |-> [l \in Fns |-> 0], since |-> [l \in Fns |-> 0]]
    /\ other = [state |-> InitState, listeners |-> <<>>,
                subs |-> 0, unsubs |-> 0, n |-> 0]

\* lines 51-57: subscribe(listener), in a run of at most n subscribe calls
SubscribeStep(l, n) ==
    /\ CanCall
    /\ Len(handles) < n
    /\ listeners' = Push(listeners, l)
    /\ stack' = PushAliased(stack, l)
    /\ handles' = Append(handles, [listener |-> l, calls |-> 0, live |-> TRUE])
    /\ dead' = dead \ {l}
    /\ UNCHANGED <<calls, state, trace, rcalls, outcome>>

SubscribeWithin(l, n) == SubscribeStep(l, n) /\ UNCHANGED rest

\* the same call, with the time of the call recorded
SubscribeCounted(l) ==
    /\ SubscribeStep(l, MaxSubs)
    /\ invoked' = [invoked EXCEPT !.since[l] = Len(trace)]
    /\ UNCHANGED <<read, other>>

Subscribe(l) == SubscribeWithin(l, MaxSubs)

SubscribeOrdered(l) == SubscribeWithin(l, MaxOrder)

RECURSIVE SumCalls(_)
SumCalls(hs) == IF hs = <<>> THEN 0 ELSE Head(hs).calls + SumCalls(Tail(hs))
UnsubCalls == SumCalls(handles)

\* lines 54-56: the closure returned by subscribe
Unsubscribe(h) ==
    /\ CanCall
    /\ UnsubCalls < MaxUnsubs
    /\ listeners' = Filter(listeners, handles[h].listener)
    /\ stack' = Unalias(stack, handles[h].listener)
    /\ handles' = [k \in 1..Len(handles) |->
                    [handles[k] EXCEPT
                        !.calls = IF k = h THEN @ + 1 ELSE @,
                        !.live = IF handles[k].listener = handles[h].listener
                                 THEN FALSE ELSE @]]
    /\ dead' = dead \cup {handles[h].listener}
    /\ UNCHANGED <<calls, state, trace, rcalls, outcome>>
    /\ UNCHANGED rest

WithinBounds(r) ==
    r.ok => /\ Len(r.val.todos.items) <= MaxItems
            /\ Len(r.val.goals.items) <= MaxItems

\* a dispatch that returns at once when the reducer hands back a state
\* equal to the one it was given
DoDispatchIfChanged(a) ==
    /\ CanCall
    /\ LET r == reducer(state, a)
       IN  /\ WithinBounds(r)
           /\ state' = DispatchState(state, r)
           /\ rcalls' = rcalls + 1
           /\ calls' = [ok |-> r.ok, prev |-> state, action |-> a,
                        made |-> AppCalls(state, a)]
           /\ IF r.ok
              THEN /\ trace' = Append(trace, a)
                   /\ IF r.val = state
                      THEN /\ outcome' = "dispatch returned"
                           /\ UNCHANGED stack
                      ELSE /\ stack' = Append(stack,
                                        NewFrame(listeners, Len(trace) + 1))
                           /\ outcome' = "dispatch running"
              ELSE /\ outcome' = "reducer threw"
                   /\ UNCHANGED <<trace, stack>>
    /\ UNCHANGED <<listeners, handles, dead>>
    /\ UNCHANGED rest

\* lines 59-60: dispatch(action) up to the start of forEach
DoDispatch(a) ==
    /\ CanCall
    /\ LET r == reducer(state, a)
       IN  /\ WithinBounds(r)
           /\ state' = DispatchState(state, r)
           /\ rcalls' = rcalls + 1
           /\ calls' = [ok |-> r.ok, prev |-> state, action |-> a,
                        made |-> AppCalls(state, a)]
           /\ IF r.ok
              THEN /\ trace' = Append(trace, a)
                   /\ stack' = Append(stack, NewFrame(listeners, Len(trace) + 1))
                   /\ outcome' = "dispatch running"
              ELSE /\ outcome' = "reducer threw"
                   /\ UNCHANGED <<trace, stack>>
    /\ UNCHANGED <<listeners, handles, dead>>
    /\ UNCHANGED rest

Dispatch(a) ==
    /\ rcalls < MaxDispatch
    /\ Len(stack) < MaxDepth
    /\ DoDispatch(a)

\* dispatch called from top level only
DispatchApp(a) ==
    /\ rcalls < MaxAppDispatch
    /\ stack = <<>>
    /\ DoDispatch(a)

\* line 61: forEach calls the next element; calling a value that is not a
\* function is a TypeError, which ends forEach and dispatch.
InvokeStep ==
    /\ stack # <<>>
    /\ ~Top.running
    /\ ~PassOver(Top)
    /\ IF Callable(Top.arr[Top.i])
       THEN /\ stack' = [stack EXCEPT ![Len(stack)] =
                            [@ EXCEPT !.running = TRUE,
                                      !.called = Append(@, Top.arr[Top.i])]]
            /\ UNCHANGED outcome
       ELSE /\ stack' = Pop(stack)
            /\ outcome' = "listener threw"
    /\ UNCHANGED <<calls, state, listeners, handles, trace, rcalls, dead>>

Invoke == InvokeStep /\ UNCHANGED rest

\* the same step, with the invocation counted
InvokeCounted ==
    /\ InvokeStep
    /\ invoked' = IF Top.arr[Top.i] \in Fns
                  THEN [invoked EXCEPT !.n[Top.arr[Top.i]] = @ + 1]
                  ELSE invoked
    /\ UNCHANGED <<read, other>>

\* a listener returns: forEach moves to the next index
ListenerReturn ==
    /\ stack # <<>>
    /\ Top.running
    /\ stack' = [stack EXCEPT ![Len(stack)] =
                    [@ EXCEPT !.running = FALSE, !.i = @ + 1]]
    /\ UNCHANGED <<calls, state, listeners, handles, trace, rcalls, outcome, dead>>
    /\ UNCHANGED rest

\* a failure of a listener that takes back the state change of the dispatch
ListenerThrowRollback ==
    /\ stack # <<>>
    /\ Top.running
    /\ stack' = Pop(stack)
    /\ outcome' = "listener threw"
    /\ state' = calls.prev
    /\ UNCHANGED <<calls, listeners, handles, trace, rcalls, dead>>
    /\ UNCHANGED rest

\* a listener throws: forEach and dispatch end with the exception
ListenerThrow ==
    /\ stack # <<>>
    /\ Top.running
    /\ stack' = Pop(stack)
    /\ outcome' = "listener threw"
    /\ UNCHANGED <<calls, state, listeners, handles, trace, rcalls, dead>>
    /\ UNCHANGED rest

\* line 62: forEach is over and dispatch returns
DispatchReturn ==
    /\ stack # <<>>
    /\ ~Top.running
    /\ PassOver(Top)
    /\ stack' = Pop(stack)
    /\ outcome' = "dispatch returned"
    /\ UNCHANGED <<calls, state, listeners, handles, trace, rcalls, dead>>
    /\ UNCHANGED rest

\* a subscribe of the second store that pushes onto an array shared by
\* all stores
SubscribeOtherShared(l) ==
    /\ CanCall
    /\ other.subs < MaxOther
    /\ other' = [other EXCEPT !.subs = @ + 1]
    /\ listeners' = Push(listeners, l)
    /\ stack' = PushAliasedIn(stack, l, 1)
    /\ UNCHANGED <<state, handles, trace, rcalls, outcome, dead, calls,
                   read, invoked>>

\* lines 51-53 in the second store
SubscribeOther(l) ==
    /\ CanCall
    /\ other.subs < MaxOther
    /\ other' = [other EXCEPT !.listeners = Push(@, l), !.subs = @ + 1]
    /\ stack' = PushAliasedIn(stack, l, 2)
    /\ UNCHANGED <<state, listeners, handles, trace, rcalls, outcome, dead,
                   calls, read, invoked>>

\* lines 54-56 in the second store: a handle returned for listener l
UnsubscribeOther(l) ==
    /\ CanCall
    /\ other.subs > 0
    /\ other.unsubs < MaxOther
    /\ other' = [other EXCEPT !.listeners = Filter(@, l), !.unsubs = @ + 1]
    /\ stack' = UnaliasIn(stack, l, 2)
    /\ UNCHANGED <<state, listeners, handles, trace, rcalls, outcome, dead,
                   calls, read, invoked>>

\* line 61 in the second store
NewFrameOther(ls) ==
    [NewFrame(ls, 0) EXCEPT !.store = 2, !.snap = ls,
                            !.startDead = {}, !.startEver = {}]

\* lines 59-61 in the second store
DispatchOther(a) ==
    /\ CanCall
    /\ other.n < MaxOther
    /\ Len(stack) < MaxDepth
    /\ LET r == reducer(other.state, a)
       IN  /\ WithinBounds(r)
           /\ other' = [other EXCEPT !.state = DispatchState(@, r),
                                     !.n = @ + 1]
           /\ IF r.ok
              THEN /\ stack' = Append(stack, NewFrameOther(other.listeners))
                   /\ outcome' = "dispatch running"
              ELSE /\ outcome' = "reducer threw"
                   /\ UNCHANGED stack
    /\ UNCHANGED <<state, listeners, handles, trace, rcalls, dead, calls,
                   read, invoked>>

\* a getState that sets the state up when it finds none
GetStateInitializing ==
    /\ CanCall
    /\ state' = IF state = Undef THEN InitStateEager ELSE state
    /\ read' = Ok(state')
    /\ UNCHANGED <<listeners, stack, handles, trace, rcalls, outcome, dead,
                   calls, invoked, other>>

\* line 50: getState()
GetState ==
    /\ CanCall
    /\ read' = Ok(getState)
    /\ UNCHANGED <<state, listeners, stack, handles, trace, rcalls, outcome,
                   dead, calls, invoked, other>>

Next ==
    \/ \E l \in Fns : Subscribe(l)
    \/ \E h \in 1..Len(handles) : Unsubscribe(h)
    \/ \E a \in StoreActions : Dispatch(a)
    \/ Invoke
    \/ ListenerReturn
    \/ ListenerThrow
    \/ DispatchReturn

Spec == Init /\ [][Next]_vars

\* The store when subscribe is handed any value: it is not unsubscribed
\* and the listeners that are functions return.
NextAny ==
    \/ \E l \in ListenerValues : Subscribe(l)
    \/ \E a \in StoreActions : Dispatch(a)
    \/ Invoke
    \/ ListenerReturn
    \/ DispatchReturn

SpecAny == Init /\ [][NextAny]_vars

\* The store with its state read by getState, at top level and inside
\* listeners; the listeners return.
NextRead ==
    \/ \E l \in {"f"} : Subscribe(l)
    \/ \E h \in 1..Len(handles) : Unsubscribe(h)
    \/ \E a \in StoreActions : Dispatch(a)
    \/ Invoke
    \/ ListenerReturn
    \/ DispatchReturn
    \/ GetState

SpecRead == Init /\ [][NextRead]_vars

\* The store with the invocations of its listeners counted; the listeners
\* return.
NextNotify ==
    \/ \E l \in Fns : SubscribeCounted(l)
    \/ \E h \in 1..Len(handles) : Unsubscribe(h)
    \/ \E a \in NotifyActions : Dispatch(a)
    \/ InvokeCounted
    \/ ListenerReturn
    \/ DispatchReturn

SpecNotify == Init /\ [][NextNotify]_vars

\* lines 59-62: dispatch called from top level
DispatchTop(a) ==
    /\ rcalls < MaxPass
    /\ stack = <<>>
    /\ DoDispatch(a)

\* one action that changes the state
TwoActions == { [type |-> "ADD_TODO", todo |-> Todo0] }

\* Dispatches from top level whose listeners return or throw, with the
\* invocations counted.
NextThrow ==
    \/ \E l \in Fns : SubscribeCounted(l)
    \/ \E h \in 1..Len(handles) : Unsubscribe(h)
    \/ \E a \in TwoActions : DispatchApp(a)
    \/ InvokeCounted
    \/ ListenerReturn
    \/ ListenerThrow
    \/ DispatchReturn

SpecThrow == Init /\ [][NextThrow]_vars

\* Three listener functions subscribed and unsubscribed in every order,
\* from top level and from inside a pass; the listeners return.
NextSubs ==
    \/ \E l \in Fns \cup OtherFns : SubscribeOrdered(l)
    \/ \E h \in 1..Len(handles) : Unsubscribe(h)
    \/ \E a \in { [type |-> "NOOP"] } : DispatchTop(a)
    \/ Invoke
    \/ ListenerReturn
    \/ DispatchReturn

SpecSubs == Init /\ [][NextSubs]_vars

\* Two stores, each with one listener function of its own, called from top
\* level and from the listeners of either store; the listeners return.
NextTwo ==
    \/ \E l \in {"f"} : Subscribe(l)
    \/ \E h \in 1..Len(handles) : Unsubscribe(h)
    \/ \E a \in TwoActions : Dispatch(a)
    \/ \E l \in OtherFns : SubscribeOther(l)
    \/ \E l \in OtherFns : UnsubscribeOther(l)
    \/ \E a \in TwoActions : DispatchOther(a)
    \/ Invoke
    \/ ListenerReturn
    \/ DispatchReturn

SpecTwo == Init /\ [][NextTwo]_vars

\* The store driven from top level with no listener registered
NextApp ==
    \/ \E a \in AppActions : DispatchApp(a)
    \/ DispatchReturn

SpecApp == Init /\ [][NextApp]_vars

----------------------------------------------------------------------------
(* Properties *)

Elems(sq) == {sq[k] : k \in 1..Len(sq)}
IsPrefix(p, sq) == Len(p) <= Len(sq) /\ p = SubSeq(sq, 1, Len(p))
Frames == {stack[k] : k \in 1..Len(stack)}
DefaultState == [todos |-> Arr(<<>>), goals |-> Arr(<<>>)]

\* left fold of the root reducer over a sequence of actions
RECURSIVE FoldApp(_, _)
FoldApp(s, as) ==
    IF as = <<>> THEN s ELSE FoldApp(app(s, Head(as)).val, Tail(as))

\* C1: getState() equals the left fold of the reducer over the store's
\* initial state and the dispatched actions, in the order dispatched; in
\* particular between two dispatches it is the result of the latest one.
C1_StateIsFold ==
    /\ getState = FoldApp(Undef, trace)
    /\ (stack = <<>> /\ trace # <<>>) =>
            getState = app(FoldApp(Undef, SubSeq(trace, 1, Len(trace) - 1)),
                           trace[Len(trace)]).val

\* two dispatches have returned and their order decided the state
C1_Witness ==
    /\ stack = <<>>
    /\ outcome = "dispatch returned"
    /\ trace = << [type |-> "REMOVE_TODO", id |-> 0],
                  [type |-> "ADD_TODO", todo |-> Todo0] >>
    /\ getState = [todos |-> Arr(<<Todo0>>), goals |-> Arr(<<>>)]

C3_ReducerFailure ==
    [][(rcalls' = rcalls + 1 /\ trace' = trace) =>
            /\ state' = state
            /\ listeners' = listeners
            /\ stack' = stack
            /\ outcome' = "reducer threw"]_vars

\* the latest dispatch was called by a listener and failed in its reducer,
\* on a defined state
C3_Witness ==
    /\ outcome = "reducer threw"
    /\ ~calls.ok
    /\ stack # <<>>
    /\ getState # Undef
    /\ getState = calls.prev

\* C4 as stated: a listener whose unsubscribe handle has returned is never
\* invoked by a dispatch that starts afterwards.
C4_NeverInvokedAgain ==
    \A f \in Frames : Elems(f.called) \cap f.startEver = {}

\* C4 amended: the same, unless the listener has been subscribed again
\* between the unsubscribe call and the start of the dispatch.
C4_NotInvokedUnlessResubscribed ==
    \A f \in Frames : Elems(f.called) \cap f.startDead = {}

\* a pass that began after one listener was unsubscribed has invoked
\* another listener and is over
C4_Witness ==
    \E f \in Frames :
        /\ f.startDead # {}
        /\ f.called # <<>>
        /\ ~f.running /\ PassOver(f)

\* C5: a pass invokes the registrations present when it began, in order and
\* once each, whatever is subscribed or unsubscribed while it runs.
C5_PassIsSnapshot ==
    \A f \in Frames :
        /\ IsPrefix(f.called, f.snap)
        /\ (~f.running /\ PassOver(f)) => f.called = f.snap

\* a finished pass during which one of its listeners was unsubscribed and
\* another listener was subscribed
C5_Witness ==
    \E f \in Frames :
        /\ ~f.running /\ PassOver(f)
        /\ f.called = f.snap
        /\ Elems(f.snap) \ Elems(listeners) # {}
        /\ Elems(listeners) \ Elems(f.snap) # {}

\* C6: calling an unsubscribe handle that has been called before changes
\* nothing in the listener collection.
C6_SecondCallNoOp ==
    [][\A h \in 1..Len(handles) :
            (handles[h].calls >= 1 /\ handles'[h].calls > handles[h].calls)
                => listeners' = listeners]_vars

\* C7: a value that is not a function never enters the listener collection.
C7_InvalidListenerRejected ==
    \A k \in 1..Len(listeners) : Callable(listeners[k])

\* history: the core of a frame, without the array it iterates
Core(f) == [i |-> f.i, running |-> f.running, called |-> f.called,
            snap |-> f.snap, pos |-> f.pos]

\* C8: a dispatch that returns has committed its state before its first
\* listener ran, every listener it invokes sees a state that includes its
\* action, and it has invoked the listeners registered when its pass began,
\* in the order of their subscribe calls, before it returns.
C8_CommitThenNotify ==
    /\ [](\A f \in Frames :
            /\ f.pos <= Len(trace)
            /\ getState = FoldApp(Undef, trace)
            /\ IsPrefix(f.called, f.snap))
    /\ [][outcome' = "dispatch returned" /\ Len(stack') < Len(stack)
            => Top.called = Top.snap]_vars

\* a pass is invoking the second of two different listeners
C8_Witness ==
    /\ stack # <<>>
    /\ Top.running
    /\ Len(Top.called) = 2
    /\ Top.called[1] # Top.called[2]
    /\ getState # Undef

\* C9: while a nested dispatch runs, the dispatches around it wait inside
\* the listener that made the call and their passes stay as they are; when
\* the nested dispatch ends, control is back in that listener; the state is
\* the fold of the reducer over the actions in the order of their reducer
\* calls, the outer action before the nested ones.
C9_ReentrantDispatch ==
    /\ [](/\ \A k \in 1..Len(stack) - 1 :
                /\ stack[k].running
                /\ stack[k].pos < stack[k + 1].pos
                /\ IsPrefix(stack[k].called, stack[k].snap)
           /\ getState = FoldApp(Undef, trace))
    /\ [][/\ Len(stack') >= Len(stack) - 1
           /\ \A k \in 1..Len(stack) - 1 : Core(stack'[k]) = Core(stack[k])]_vars

\* a nested dispatch has run its whole pass while the outer pass still has
\* a listener to invoke
C9_Witness ==
    /\ Len(stack) = 2
    /\ ~Top.running /\ PassOver(Top)
    /\ Top.called # <<>>
    /\ Top.called = Top.snap
    /\ stack[1].i < stack[1].len
    /\ Len(trace) = 2

\* the sub-state `prev.slice` that app reads (line 96: prev defaults to {})
SubState(prev, slice) == IF prev = Undef THEN Undef ELSE prev[slice]

\* C10: a dispatch whose reducer call returns yields
\* {todos: todos(prev.todos, action), goals: goals(prev.goals, action)},
\* having called each slice reducer once, with its own previous sub-state
\* and the dispatched action.
C10_Composition ==
    calls.ok =>
        /\ DOMAIN getState = {"todos", "goals"}
        /\ getState.todos = todos(SubState(calls.prev, "todos"), calls.action).val
        /\ getState.goals = goals(SubState(calls.prev, "goals"), calls.action).val
        /\ Len(calls.made) = 2
        /\ \A sl \in {"todos", "goals"} :
              \E k \in 1..2 :
                /\ calls.made[k] = [slice |-> sl,
                                    state |-> SubState(calls.prev, sl),
                                    action |-> calls.action]
                /\ \A j \in 1..2 : calls.made[j].slice = sl => j = k

\* a dispatch has changed the goals of a state that holds todos
C10_Witness ==
    /\ calls.ok
    /\ calls.prev # Undef
    /\ calls.prev.todos.items # <<>>
    /\ getState.goals # calls.prev.goals
    /\ getState.todos = calls.prev.todos

----------------------------------------------------------------------------
(* Properties of the reducers *)

KnownTypes == {"ADD_TODO", "REMOVE_TODO", "TOGGLE_TODO",
               "ADD_GOAL", "REMOVE_GOAL"}
TodoTypes == {"ADD_TODO", "REMOVE_TODO", "TOGGLE_TODO"}
GoalTypes == {"ADD_GOAL", "REMOVE_GOAL"}

\* the latest dispatch was of an action whose type no slice reducer knows
\* and its reducer call returned
UnknownDispatched ==
    /\ calls.ok
    /\ ActionType(calls.action) \notin KnownTypes

IsList(v) == DOMAIN v = {"items"}

C17_SlicesIsolated ==
    /\ (calls.ok /\ calls.prev # Undef) =>
            /\ ActionType(calls.action) \in TodoTypes =>
                    getState.goals = calls.prev.goals
            /\ ActionType(calls.action) \in GoalTypes =>
                    getState.todos = calls.prev.todos
    /\ "made" \in DOMAIN calls =>
            \A k \in 1..Len(calls.made) :
                calls.made[k].state = SubState(calls.prev, calls.made[k].slice)

\* REMOVE_TODO with the id of a goal removed a todo and left the goal
C17_Witness ==
    /\ calls.ok
    /\ calls.action = [type |-> "REMOVE_TODO", id |-> 0]
    /\ calls.prev # Undef
    /\ calls.prev.goals.items = <<Goal0>>
    /\ getState.goals.items = <<Goal0>>
    /\ getState.todos # calls.prev.todos

\* C18: TOGGLE_TODO with id i keeps the length and the order of the list,
\* inverts `complete` in the todos whose id is i, keeps their other fields
\* and the other todos, and undoes itself when dispatched again.
C18_ToggleInverts ==
    (calls.ok /\ calls.prev # Undef
        /\ ActionType(calls.action) = "TOGGLE_TODO") =>
        LET old == calls.prev.todos.items
            new == getState.todos.items
        IN  /\ Len(new) = Len(old)
            /\ \A k \in 1..Len(old) :
                  IF old[k].id = calls.action.id
                  THEN /\ new[k].complete = ~old[k].complete
                       /\ new[k].id = old[k].id
                       /\ new[k].name = old[k].name
                       /\ DOMAIN new[k] = DOMAIN old[k]
                  ELSE new[k] = old[k]
            /\ todos(getState.todos, calls.action).val = calls.prev.todos
            /\ (\A k \in 1..Len(old) : old[k].id # calls.action.id)
                  => new = old

\* a toggle inverted one of two todos
C18_Witness ==
    /\ calls.ok
    /\ calls.action = [type |-> "TOGGLE_TODO", id |-> 0]
    /\ calls.prev # Undef
    /\ calls.prev.todos.items = <<Todo1, Todo0>>
    /\ getState.todos.items = <<Todo1, [Todo0 EXCEPT !.complete = TRUE]>>

----------------------------------------------------------------------------
(* Properties of the store, continued *)

\* C13: a step that is not a dispatch call leaves the state as it is, and a
\* getState() call returns the state, without failing, and leaves the
\* listener collection and everything else as it is.
C13_OnlyDispatchWrites ==
    [][/\ rcalls' = rcalls => state' = state
       /\ read' # read =>
            /\ read' = Ok(state)
            /\ state' = state
            /\ listeners' = listeners
            /\ stack' = stack
            /\ handles' = handles]_vars

\* getState() was called inside a listener, after a subscribe and an
\* unsubscribe call, and returned the state of the dispatch in progress
C13_Witness ==
    /\ stack # <<>>
    /\ read = Ok(getState)
    /\ getState # Undef
    /\ listeners # <<>>
    /\ UnsubCalls > 0

\* the listener of handle h has been registered once, by h, and not removed
ContinuouslyRegistered(h) ==
    /\ handles[h].live
    /\ \A k \in 1..Len(handles) :
            handles[k].listener = handles[h].listener => k = h

\* C16: dispatch stores the reducer's result and notifies whether or not
\* the state changed: when no dispatch is running, a listener registered
\* once and never removed has been invoked once for every dispatch whose
\* reducer call returned since its subscribe call.
C16_NotifiesUnconditionally ==
    /\ getState = FoldApp(Undef, trace)
    /\ stack = <<>> =>
            \A h \in 1..Len(handles) :
                ContinuouslyRegistered(h) =>
                    invoked.n[handles[h].listener]
                        = Len(trace) - invoked.since[handles[h].listener]

\* two dispatches of the unknown action have returned, the second on a
\* state it left as it was, and the listener was invoked by both
C16_Witness ==
    /\ stack = <<>>
    /\ trace = <<[type |-> "NOOP"], [type |-> "NOOP"]>>
    /\ calls.prev = getState
    /\ \E h \in 1..Len(handles) :
            /\ ContinuouslyRegistered(h)
            /\ invoked.since[handles[h].listener] = 0
            /\ invoked.n[handles[h].listener] = 2

\* C19: a step that changes the state or the listener collection of one
\* store leaves those of the other store as they are, and the pass of a
\* dispatch invokes listeners of its own store only.
C19_StoresIndependent ==
    /\ [][((other.state' # other.state \/ other.listeners' # other.listeners)
              => (state' = state /\ listeners' = listeners))
          /\ ((state' # state \/ listeners' # listeners)
              => (other.state' = other.state
                  /\ other.listeners' = other.listeners))
          /\ ((other' # other)
              => (state' = state /\ listeners' = listeners))]_vars
    /\ [](\A f \in Frames :
            Elems(f.called) \subseteq (IF f.store = 1 THEN Fns ELSE OtherFns))

\* the two stores hold different states and different listeners, and a
\* listener of the first store is running a dispatch of the second
C19_Witness ==
    /\ Len(stack) = 2
    /\ stack[1].store = 1 /\ stack[2].store = 2
    /\ stack[2].called # <<>>
    /\ getState # Undef /\ other.state # Undef
    /\ getState # other.state
    /\ listeners # <<>> /\ other.listeners # <<>>

\* the number of times l occurs in seq
Count(seq, l) == Cardinality({i \in 1..Len(seq) : seq[i] = l})

Others(ls, l) == SelectSeq(ls, LAMBDA x : x # l)

\* C15: a call of an unsubscribe handle leaves the registrations of the
\* other listeners in the collection, in the order they had.
C15_OthersKeepOrder ==
    [][\A h \in 1..Len(handles) :
        handles'[h].calls # handles[h].calls =>
            /\ Others(listeners', handles[h].listener)
                    = Others(listeners, handles[h].listener)
            /\ Len(listeners') = Len(Others(listeners, handles[h].listener))
      ]_vars

\* the middle one of three different listeners has been unsubscribed and
\* the other two are registered in the order of their subscribe calls
C15_Witness ==
    /\ Len(handles) = 3
    /\ handles[1].listener # handles[2].listener
    /\ handles[2].listener # handles[3].listener
    /\ handles[1].listener # handles[3].listener
    /\ handles[2].calls = 1
    /\ UnsubCalls = 1
    /\ listeners = <<handles[1].listener, handles[3].listener>>

\* C20: the step in which a listener throws ends the pass and the dispatch
\* with that failure, invokes no listener, and leaves the state the reducer
\* returned and the listener collection as they are; the state stays the
\* fold of the accepted actions, and after the failure the store accepts
\* the next dispatch.
C20_ListenerFailure ==
    /\ [][(Len(stack') < Len(stack) /\ Top.running) =>
                /\ state' = state
                /\ listeners' = listeners
                /\ handles' = handles
                /\ invoked' = invoked
                /\ stack' = Pop(stack)
                /\ outcome' = "listener threw"]_vars
    /\ [](getState = FoldApp(Undef, trace))
    /\ [](listeners = Registered(handles))
    /\ []((stack = <<>> /\ outcome = "listener threw"
            /\ rcalls < MaxAppDispatch)
            => ENABLED DispatchApp([type |-> "NOOP"]))

\* the first of two listeners threw in two passes that changed the state:
\* the second listener was never invoked, both stay registered, and the
\* second dispatch was accepted after the failure of the first
C20_Witness ==
    /\ stack = <<>>
    /\ outcome = "listener threw"
    /\ listeners = <<"f", "g">>
    /\ Len(handles) = 2
    /\ invoked.since["f"] = 0 /\ invoked.since["g"] = 0
    /\ Len(trace) = 2
    /\ trace[1].type = "ADD_TODO" /\ trace[2].type = "ADD_TODO"
    /\ Len(getState.todos.items) = 2
    /\ invoked.n["f"] = 2
    /\ invoked.n["g"] = 0

=============================================================================
